---- MODULE Spec2Model ----
(***************************************************************************)
(* A model of the MCP playground server (index.js) and of the browser      *)
(* client (public/script.js): the task store kept in one JSON file, the    *)
(* tool dispatcher executeTool, and the POST /chat handler with its two    *)
(* outbound completion calls.                                              *)
(*                                                                         *)
(* JavaScript values are tagged records.  A string is a sequence of        *)
(* one-character strings, so that trim, toLowerCase, includes and          *)
(* Number() are computed and not assumed.  Fixed texts the code only       *)
(* builds and never inspects (error messages, tool names, call labels)     *)
(* are TLA+ strings.                                                       *)
(***************************************************************************)
EXTENDS Integers, Sequences, FiniteSets, TLC

(***************************************************************************)
(* Bounds of the model.                                                    *)
(***************************************************************************)
\* the longest tool_calls list an assistant message carries
MaxCalls == 2
\* the number of POST /chat requests one behaviour contains
MaxTurns == 2
\* Date.now() never passes this value
MaxNow == 8

(***************************************************************************)
(* JavaScript values.                                                      *)
(***************************************************************************)
Undef == [t |-> "undefined"]
Null == [t |-> "null"]
NaN == [t |-> "NaN"]
Num(n) == [t |-> "number", n |-> n]
Str(s) == [t |-> "string", s |-> s]
Bool(b) == [t |-> "boolean", b |-> b]
\* a plain object with the properties the handlers read; an absent property
\* reads as undefined
Obj(f) == [t |-> "object", f |-> f]
Arr(a) == [t |-> "array", a |-> a]
\* a string the code only builds or passes on and never looks into
Lit(text) == [t |-> "string", lit |-> text]

NoProps == [k \in {"id", "title", "name", "task", "query", "done"} |-> Undef]
\* the object literal {k1: v1, ...} given as a function on some of the keys
Object(fields) ==
  Obj([k \in DOMAIN NoProps |-> IF k \in DOMAIN fields THEN fields[k] ELSE Undef])

\* input?.key
Get(input, key) == IF input.t = "object" THEN input.f[key] ELSE Undef

\* a ?? b
Coalesce(a, b) == IF a.t \in {"undefined", "null"} THEN b ELSE a

\* the truthiness of a value: if (v), !v, v || w
Truthy(v) ==
  CASE v.t \in {"undefined", "null", "NaN"} -> FALSE
    [] v.t = "number" -> v.n # 0
    [] v.t = "string" -> IF "lit" \in DOMAIN v THEN v.lit # "" ELSE v.s # <<>>
    [] v.t = "boolean" -> v.b
    [] OTHER -> TRUE

\* a === b: primitives by value, NaN equal to nothing, objects by identity
\* (two values parsed from JSON are never the same object)
StrictEq(a, b) == a.t \notin {"NaN", "object", "array"} /\ a = b

(***************************************************************************)
(* Strings.                                                                *)
(***************************************************************************)
Upper == <<"A", "B", "C", "D", "E", "F", "G", "H", "I", "J", "K", "L", "M",
           "N", "O", "P", "Q", "R", "S", "T", "U", "V", "W", "X", "Y", "Z">>
LowerLetters == <<"a", "b", "c", "d", "e", "f", "g", "h", "i", "j", "k", "l", "m",
           "n", "o", "p", "q", "r", "s", "t", "u", "v", "w", "x", "y", "z">>
Digits == <<"0", "1", "2", "3", "4", "5", "6", "7", "8", "9">>

IndexIn(c, seq) == CHOOSE i \in 1..Len(seq) : seq[i] = c
InSeq(c, seq) == \E i \in 1..Len(seq) : seq[i] = c

LowerChar(c) == IF InSeq(c, Upper) THEN LowerLetters[IndexIn(c, Upper)] ELSE c
\* String.prototype.toLowerCase
ToLowerCase(s) == [i \in 1..Len(s) |-> LowerChar(s[i])]

RECURSIVE TrimStart(_)
TrimStart(s) == IF s # <<>> /\ Head(s) = " " THEN TrimStart(Tail(s)) ELSE s
RECURSIVE TrimEnd(_)
TrimEnd(s) ==
  IF s # <<>> /\ s[Len(s)] = " " THEN TrimEnd(SubSeq(s, 1, Len(s) - 1)) ELSE s
\* String.prototype.trim
Trim(s) == TrimEnd(TrimStart(s))

\* String.prototype.includes
Includes(s, q) ==
  \E i \in 0..(Len(s) - Len(q)) : SubSeq(s, i + 1, i + Len(q)) = q

RECURSIVE DecimalValue(_)
DecimalValue(s) ==
  IF s = <<>> THEN 0
  ELSE 10 * DecimalValue(SubSeq(s, 1, Len(s) - 1)) + (IndexIn(s[Len(s)], Digits) - 1)

RECURSIVE DecimalDigits(_)
DecimalDigits(n) ==
  IF n < 10 THEN <<Digits[n + 1]>>
  ELSE Append(DecimalDigits(n \div 10), Digits[(n % 10) + 1])

\* Number(v).  The strings of the model are made of letters, digits and
\* blanks, for which a string is numeric exactly when it is blank or, once
\* trimmed, all digits.
ToNumber(v) ==
  CASE v.t = "number" -> v
    [] v.t = "null" -> Num(0)
    [] v.t = "boolean" -> Num(IF v.b THEN 1 ELSE 0)
    [] v.t = "string" ->
         LET tr == Trim(v.s)
         IN  IF \A i \in 1..Len(tr) : InSeq(tr[i], Digits)
             THEN Num(DecimalValue(tr))
             ELSE NaN
    [] OTHER -> NaN

IsNaN(v) == v.t = "NaN"

\* String(v) of the values a task title can hold
StringOf(v) ==
  CASE v.t = "string" -> v.s
    [] v.t = "number" -> DecimalDigits(v.n)
    [] v.t = "boolean" -> IF v.b THEN <<"t", "r", "u", "e">> ELSE <<"f", "a", "l", "s", "e">>
    [] OTHER -> <<>>

(***************************************************************************)
(* Texts: what JSON.stringify writes and JSON.parse reads.  A text is      *)
(* either the encoding of a value, the empty string, or something that is  *)
(* not JSON.                                                               *)
(***************************************************************************)
JSONstringify(v) == [k |-> "json", v |-> v]
EmptyText == [k |-> "empty"]
Malformed == [k |-> "malformed"]
\* no text at all (the property is undefined)
NoText == [k |-> "undefined"]
\* if (text): the empty string and undefined are falsy
TextTruthy(text) == text.k \in {"json", "malformed"}

\* an Error object: its message and the two status properties the /chat
\* catch block looks at
Error(message) == [message |-> message, status |-> Undef, statusCode |-> Undef]
APIError(status, statusCode, message) ==
  [message |-> message, status |-> status, statusCode |-> statusCode]

\* the outcome of a call: a returned value or a thrown error, and the task
\* file the call leaves behind
Return(file, out) == [threw |-> FALSE, out |-> out, file |-> file]
Throw(file, err) == [threw |-> TRUE, out |-> err, file |-> file]

\* JSON.parse(text)
JSONparse(text) ==
  IF text.k = "json" THEN [threw |-> FALSE, out |-> text.v]
  ELSE [threw |-> TRUE, out |-> Error("Unexpected token in JSON")]

(***************************************************************************)
(* The task file.  env is the record [file, writable, now]: the content of *)
(* TASKS_FILE (Missing when it does not exist), whether the file system    *)
(* accepts writes, and the clock Date.now() reads.                         *)
(***************************************************************************)
Missing == [k |-> "missing"]

readTasks(env) ==
  IF env.file = Missing
  THEN \* fs.writeFileSync throws inside the try when the write is refused
       IF env.writable THEN Return(JSONstringify(<<>>), <<>>)
       ELSE Return(env.file, <<>>)
  ELSE LET parsed == JSONparse(env.file)
       IN  IF parsed.threw THEN Return(env.file, <<>>)
           ELSE Return(env.file, parsed.out)

writeTasks(tasks, env) ==
  IF env.writable THEN Return(JSONstringify(tasks), Undef)
  ELSE Throw(env.file,
             Error("Failed to save tasks. Tasks are ephemeral in serverless environment."))

\* writeTasks(tasks) on the tasks mapped from what readTasks gave (read),
\* followed by return {success: true}
WriteMapped(read, tasks, env) ==
  LET w == writeTasks(tasks, [env EXCEPT !.file = read.file])
  IN  IF w.threw THEN w ELSE Return(w.file, [success |-> TRUE])

createTask(title, env) ==
  LET r == readTasks(env)
      newTask == [id |-> Num(env.now), title |-> title, done |-> Bool(FALSE)]
      w == writeTasks(Append(r.out, newTask), [env EXCEPT !.file = r.file])
  IN  IF w.threw THEN w ELSE Return(w.file, [success |-> TRUE, task |-> newTask])

listTasks(env) ==
  LET r == readTasks(env) IN Return(r.file, [tasks |-> r.out])

MarkDone(task) == [task EXCEPT !.done = Bool(TRUE)]

\* a variant that takes the last task whose title includes the query
FirstTitleMatch_Last(tasks, titleQuery) ==
  LET hits == {i \in 1..Len(tasks) :
                 Includes(ToLowerCase(StringOf(IF Truthy(tasks[i].title)
                                               THEN tasks[i].title
                                               ELSE Str(<<>>))),
                          titleQuery)}
  IN  IF hits = {} THEN 0 ELSE CHOOSE i \in hits : \A j \in hits : j <= i

\* the index of the first task whose lower-cased title includes the query,
\* 0 when there is none
FirstTitleMatch(tasks, titleQuery) ==
  LET hits == {i \in 1..Len(tasks) :
                 Includes(ToLowerCase(StringOf(IF Truthy(tasks[i].title)
                                               THEN tasks[i].title
                                               ELSE Str(<<>>))),
                          titleQuery)}
  IN  IF hits = {} THEN 0 ELSE CHOOSE i \in hits : \A j \in hits : i <= j

markCompleteByIdOrTitle(idOrTitle, env) ==
  LET idNum == ToNumber(idOrTitle)
      ById(task) == IF StrictEq(task.id, idNum) THEN MarkDone(task) ELSE task
  IN  IF /\ ~IsNaN(idNum)
         /\ idOrTitle # Str(<<>>)
         /\ idOrTitle # Null
         /\ idOrTitle # Undef
      THEN LET r == readTasks(env)
           IN  WriteMapped(r, [i \in 1..Len(r.out) |-> ById(r.out[i])], env)
      ELSE LET titleQuery == IF idOrTitle.t = "string"
                             THEN ToLowerCase(Trim(idOrTitle.s))
                             ELSE <<>>
           IN  IF titleQuery = <<>>
               THEN Return(env.file,
                           [success |-> FALSE, error |-> "Invalid task ID or missing title"])
               ELSE LET r == readTasks(env)
                        m == FirstTitleMatch(r.out, titleQuery)
                        tasks == [i \in 1..Len(r.out) |->
                                    IF i = m THEN MarkDone(r.out[i]) ELSE r.out[i]]
                        w == writeTasks(tasks, [env EXCEPT !.file = r.file])
                    IN  IF m = 0
                        THEN Return(r.file,
                                    [success |-> FALSE, error |-> "No task title matched"])
                        ELSE IF w.threw THEN w
                        ELSE Return(w.file, [success |-> TRUE])

updateTask(id, title, done, env) ==
  LET idNum == ToNumber(id)
      Merge(task) ==
        IF StrictEq(task.id, idNum)
        THEN [task EXCEPT !.title = IF title # Undef THEN title ELSE @,
                          !.done = IF done # Undef THEN done ELSE @]
        ELSE task
  IN  IF IsNaN(idNum) \/ (~Truthy(title) /\ done = Undef)
      THEN Return(env.file,
                  [success |-> FALSE,
                   error |-> "Invalid task ID or missing title/done status"])
      ELSE LET r == readTasks(env)
           IN  WriteMapped(r, [i \in 1..Len(r.out) |-> Merge(r.out[i])], env)

\* a variant that looks at title before id
ResolveIdOrTitle_TitleFirst(input) ==
  Coalesce(Get(input, "title"),
    Coalesce(Get(input, "id"),
      Coalesce(Get(input, "name"),
        Coalesce(Get(input, "task"), Get(input, "query")))))

\* the identifier mark-complete is given:
\* input?.id ?? input?.title ?? input?.name ?? input?.task ?? input?.query
ResolveIdOrTitle(input) ==
  Coalesce(Get(input, "id"),
    Coalesce(Get(input, "title"),
      Coalesce(Get(input, "name"),
        Coalesce(Get(input, "task"), Get(input, "query")))))

\* a variant whose default branch throws
executeTool_ThrowUnknown(toolName, input, env) ==
  CASE toolName = "create-task" -> createTask(Get(input, "title"), env)
    [] toolName = "list-tasks" -> listTasks(env)
    [] toolName = "mark-complete" ->
         markCompleteByIdOrTitle(ResolveIdOrTitle(input), env)
    [] toolName = "update-task" ->
         updateTask(Get(input, "id"), Get(input, "title"), Get(input, "done"), env)
    [] OTHER -> Throw(env.file, Error("Unknown tool: " \o toolName))

executeTool(toolName, input, env) ==
  CASE toolName = "create-task" -> createTask(Get(input, "title"), env)
    [] toolName = "list-tasks" -> listTasks(env)
    [] toolName = "mark-complete" ->
         markCompleteByIdOrTitle(ResolveIdOrTitle(input), env)
    [] toolName = "update-task" ->
         updateTask(Get(input, "id"), Get(input, "title"), Get(input, "done"), env)
    [] OTHER ->
         Return(env.file, [success |-> FALSE, error |-> "Unknown tool: " \o toolName])

(***************************************************************************)
(* POST /chat.                                                             *)
(***************************************************************************)
TIMEOUT_MS == 5000

FirstLabel == "OpenAI chat completion"
FollowUpLabel == "OpenAI follow-up completion"

\* a settled promise
Resolved(value) == [ok |-> TRUE, value |-> value]
Rejected(err) == [ok |-> FALSE, err |-> err]

\* a variant with no timer
withTimeout_NoTimer(outcome, latency, label) == {outcome}

\* withTimeout(promise, label): Promise.race of the call, which settles as
\* `outcome` after `latency` ms, against a timer of TIMEOUT_MS.  The result is
\* the set of ways the race can end; both are possible when the two fall due
\* together.
withTimeout(outcome, latency, label) ==
  (IF latency <= TIMEOUT_MS THEN {outcome} ELSE {})
    \cup
  (IF latency >= TIMEOUT_MS
   THEN {Rejected(Error(label \o " timed out after " \o ToString(TIMEOUT_MS) \o "ms"))}
   ELSE {})

SystemMessage ==
  [role |-> "system", content |-> Lit("You are an AI agent that can call MCP tools.")]

UserMessage(content) == [role |-> "user", content |-> content]

\* a variant that pushes the user message without looking at the last entry
PrepareTranscript_AlwaysPush(body) ==
  LET convo0 == IF body.messages.t = "array" THEN body.messages.a ELSE <<>>
      convo1 == IF Truthy(body.message)
                THEN Append(convo0, UserMessage(body.message))
                ELSE convo0
  IN  IF \E i \in 1..Len(convo1) : convo1[i].role = "system"
      THEN convo1
      ELSE <<SystemMessage>> \o convo1

\* a variant that puts the system message in the place of the first entry
PrepareTranscript_Overwrite(body) ==
  LET convo0 == IF body.messages.t = "array" THEN body.messages.a ELSE <<>>
      alreadyAdded ==
        /\ convo0 # <<>>
        /\ convo0[Len(convo0)].role = "user"
        /\ StrictEq(convo0[Len(convo0)].content, body.message)
      convo1 == IF Truthy(body.message) /\ ~alreadyAdded
                THEN Append(convo0, UserMessage(body.message))
                ELSE convo0
  IN  IF \E i \in 1..Len(convo1) : convo1[i].role = "system"
      THEN convo1
      ELSE IF convo1 = <<>> THEN <<SystemMessage>>
      ELSE [convo1 EXCEPT ![1] = SystemMessage]

\* the preparation of the transcript: the user message is pushed, the system
\* message is put in front
PrepareTranscript(body) ==
  LET message == body.message
      messages == body.messages
      convo0 == IF messages.t = "array" THEN messages.a ELSE <<>>
      alreadyAdded ==
        /\ convo0 # <<>>
        /\ convo0[Len(convo0)].role = "user"
        /\ StrictEq(convo0[Len(convo0)].content, message)
      convo1 == IF Truthy(message) /\ ~alreadyAdded
                THEN Append(convo0, UserMessage(message))
                ELSE convo0
  IN  IF \E i \in 1..Len(convo1) : convo1[i].role = "system"
      THEN convo1
      ELSE <<SystemMessage>> \o convo1

\* a variant that tags the result with the name of the tool
ToolMessage_ByName(toolCall, toolResult) ==
  [role |-> "tool", tool_call_id |-> toolCall.function.name,
   content |-> JSONstringify(toolResult)]

ToolMessage(toolCall, toolResult) ==
  [role |-> "tool", tool_call_id |-> toolCall.id, content |-> JSONstringify(toolResult)]

\* a variant that takes the empty object for arguments that are not JSON
ToolArgs_OrEmpty(toolCall) ==
  LET parsed == JSONparse(toolCall.function.arguments)
  IN  IF TextTruthy(toolCall.function.arguments) /\ ~parsed.threw
      THEN parsed
      ELSE [threw |-> FALSE, out |-> Object(<<>>)]

\* toolArgs: toolCall.function.arguments parsed, or {} when there are none
ToolArgs(toolCall) ==
  IF TextTruthy(toolCall.function.arguments)
  THEN JSONparse(toolCall.function.arguments)
  ELSE [threw |-> FALSE, out |-> Object(<<>>)]

\* a variant that throws when the tool reports a failure
DispatchToolCall_ThrowOnFailure(toolCall, env) ==
  LET toolArgs == ToolArgs(toolCall)
      r == executeTool(toolCall.function.name, toolArgs.out, env)
  IN  IF toolArgs.threw THEN Throw(env.file, toolArgs.out)
      ELSE IF ~r.threw /\ "success" \in DOMAIN r.out /\ ~r.out.success
      THEN Throw(r.file, Error(r.out.error))
      ELSE r

\* the body of the loop up to toolResult: the arguments are parsed and the
\* tool is executed
DispatchToolCall(toolCall, env) ==
  LET toolArgs == ToolArgs(toolCall)
  IN  IF toolArgs.threw THEN Throw(env.file, toolArgs.out)
      ELSE executeTool(toolCall.function.name, toolArgs.out, env)

\* a variant that only asks whether tool_calls is there: an empty list passes
HasToolCalls_Truthy(assistantMessage) == TRUE

\* assistantMessage.tool_calls && assistantMessage.tool_calls.length > 0
HasToolCalls(assistantMessage) == Len(assistantMessage.tool_calls) > 0

\* the for loop over assistantMessage.tool_calls, from call i on.  ticks[i]
\* is the time that passed on the clock before call i is dispatched.  The
\* result says whether the loop threw, and gives the transcript, the task
\* file, the clock and the dispatches made so far.
RECURSIVE RunToolCalls(_, _, _, _, _, _)
RunToolCalls(calls, i, convo, env, log, ticks) ==
  IF i > Len(calls)
  THEN [threw |-> FALSE, err |-> Undef, convo |-> convo, file |-> env.file,
        now |-> env.now, log |-> log]
  ELSE LET toolCall == calls[i]
           at == [env EXCEPT !.now = @ + ticks[i]]
           r == DispatchToolCall(toolCall, at)
       IN  IF r.threw
           THEN [threw |-> TRUE, err |-> r.out, convo |-> convo,
                 file |-> r.file, now |-> at.now, log |-> log]
           ELSE RunToolCalls(calls, i + 1,
                             Append(convo, ToolMessage(toolCall, r.out)),
                             [at EXCEPT !.file = r.file],
                             Append(log, [call |-> i, name |-> toolCall.function.name,
                                          input |-> ToolArgs(toolCall).out,
                                          at |-> at.now, result |-> r.out]),
                             ticks)

\* a variant that passes any status on
ChatCatch_NoClamp(error) ==
  LET given == IF Truthy(error.status) THEN error.status ELSE error.statusCode
      number == ToNumber(given)
      status == IF Truthy(number) THEN number.n ELSE 500
  IN  [status |-> status,
       body |-> [error |-> IF error.message # "" THEN error.message
                           ELSE "Chat request failed"]]

\* the catch block of the handler: the error response
ChatCatch(error) ==
  LET given == IF Truthy(error.status) THEN error.status ELSE error.statusCode
      number == ToNumber(given)
      status == IF Truthy(number) THEN number.n ELSE 500
      safeStatus == IF status >= 400 /\ status <= 599 THEN status ELSE 500
  IN  [status |-> safeStatus,
       body |-> [error |-> IF error.message # "" THEN error.message
                           ELSE "Chat request failed"]]

MissingKeyResponse ==
  [status |-> 503,
   body |-> [error |-> "Missing OPENAI_API_KEY. Add it to .env and restart the server."]]

\* res.json(...): status 200
ChatOk(message, convo) ==
  [status |-> 200, body |-> [message |-> message, messages |-> convo]]

(***************************************************************************)
(* The state.                                                              *)
(***************************************************************************)
VARIABLES
  client,        \* whether OPENAI_API_KEY was set when the server started
  file,          \* the content of TASKS_FILE
  writable,      \* whether the file system accepts writes
  now,           \* the clock behind Date.now()
  turn,          \* the POST /chat requests, by number
  conversation,  \* the browser's conversation
  sendDisabled,  \* the browser's #chat-send.disabled
  page,          \* the browser's #tasks and #task-status, and its last fetchTasks
  probe          \* the last direct call of executeTool and its outcome

vars == <<client, file, writable, now, turn, conversation, sendDisabled, page, probe>>

None == [t |-> "none"]
\* in place of the label of a call that outlasted the deadline
OnTime == "none"

Turns == 1..MaxTurns

\* a request that was not sent yet
IdleTurn ==
  [pc |-> "idle", from |-> "none", body |-> None, convo |-> <<>>,
   assistantMessage |-> None, finalMessage |-> None, res |-> None,
   \* what happened, kept for the properties: the completion calls issued, the
   \* tools executed and their results, the error caught, the call that
   \* outlasted the deadline, the task file when the handler started
   calls |-> <<>>, log |-> <<>>, err |-> None, late |-> OnTime, fileAtStart |-> None]

(***************************************************************************)
(* The inputs.                                                             *)
(***************************************************************************)
S(t) == Str(t)
Hi == <<"h", "i">>
Yo == <<"y", "o">>
Foo == <<"f", "o", "o">>

Task(id, title, done) == [id |-> Num(id), title |-> title, done |-> Bool(done)]

TwoTasks ==
  <<Task(3, S(<<"F", "o", "o", "d">>), FALSE), Task(5, S(<<"B", "a", "r">>), FALSE)>>

\* a file in which two titles, the first and the last, contain "foo"
ThreeTasks ==
  TwoTasks \o <<Task(7, S(<<"F", "o", "o", " ", "b", "a", "r">>), FALSE)>>

\* the task file and the file system a server can start with
InitialDisks ==
  { [file |-> Missing, writable |-> TRUE],
    [file |-> Missing, writable |-> FALSE],
    [file |-> Malformed, writable |-> TRUE],
    [file |-> JSONstringify(<<>>), writable |-> TRUE],
    [file |-> JSONstringify(TwoTasks), writable |-> TRUE],
    [file |-> JSONstringify(TwoTasks), writable |-> FALSE] }

\* what the model can ask for in one tool call: function.name and
\* function.arguments
CallSpecs ==
  { [name |-> "create-task", arguments |-> JSONstringify(Object([title |-> S(Foo)]))],
    [name |-> "create-task", arguments |-> Malformed],
    [name |-> "list-tasks", arguments |-> NoText],
    [name |-> "mark-complete", arguments |-> JSONstringify(Object([title |-> S(<<"z">>)]))],
    [name |-> "mark-complete", arguments |-> JSONstringify(Object([id |-> Num(5)]))],
    [name |-> "update-task", arguments |-> EmptyText],
    [name |-> "delete-everything", arguments |-> JSONstringify(Object(<<>>))] }

CallId(i) == "call_" \o ToString(i)

\* the tool_calls lists of at most MaxCalls calls; the i-th call has the
\* i-th identifier
ToolCallLists ==
  UNION { { [i \in 1..n |-> [id |-> CallId(i), type |-> "function", function |-> f[i]]] :
              f \in [1..n -> CallSpecs] } : n \in 0..MaxCalls }

AssistantMessage(content, toolCalls) ==
  [role |-> "assistant", content |-> content, tool_calls |-> toolCalls]

\* the assistant messages a completion call can return
FirstReplies ==
  { AssistantMessage(IF calls = <<>> THEN Lit("Hello.") ELSE Null, calls) :
      calls \in ToolCallLists }

FollowUpReplies ==
  { AssistantMessage(Lit("Done."), <<>>),
    AssistantMessage(Null,
      <<[id |-> "call_again", type |-> "function",
         function |-> [name |-> "create-task",
                       arguments |-> JSONstringify(Object([title |-> S(Foo)]))]]>>) }

\* the errors a completion call can be rejected with
APIErrors ==
  { APIError(Num(401), Undef, "Incorrect API key provided"),
    APIError(Num(429), Undef, "Rate limit reached"),
    APIError(Num(599), Undef, "Network connect timeout"),
    APIError(Num(400), Num(400), "Bad request"),
    APIError(Num(302), Num(404), "Found"),
    APIError(Num(600), Undef, ""),
    APIError(Num(0), Num(502), "Bad gateway"),
    APIError(Undef, Num(503), "Service unavailable"),
    APIError(Undef, Num(200), "OK"),
    APIError(S(<<"4", "0", "4">>), Undef, "Not found"),
    APIError(S(<<"a", "b", "c">>), Undef, "Odd status"),
    APIError(Undef, Undef, "Connection error.") }

\* how long a completion call takes, in ms
Latencies == {1200, TIMEOUT_MS, 9000}

\* the request bodies of clients other than the browser page
Body(message, messages) == [message |-> message, messages |-> messages]
ClientBodies ==
  { Body(Undef, Undef),
    Body(S(Hi), Arr(<<>>)),
    Body(S(Hi), Arr(<<UserMessage(S(Hi))>>)),
    Body(S(Hi), Arr(<<UserMessage(S(Hi)), AssistantMessage(Lit("Hello."), <<>>)>>)),
    Body(S(<<>>), Arr(<<UserMessage(S(Yo))>>)),
    Body(S(Hi), Arr(<<SystemMessage, UserMessage(S(Yo)),
                      AssistantMessage(Lit("Hello."), <<>>), UserMessage(S(Hi))>>)),
    Body(S(Yo), Arr(<<UserMessage(S(Hi)), SystemMessage>>)) }

\* the few inputs of Spec
FewBodies == { Body(S(Hi), Arr(<<UserMessage(S(Hi))>>)), Body(S(Hi), Arr(<<>>)) }
FewReplies ==
  { AssistantMessage(Lit("Hello."), <<>>),
    AssistantMessage(Null,
      <<[id |-> CallId(1), type |-> "function",
         function |-> [name |-> "create-task",
                       arguments |-> JSONstringify(Object([title |-> S(Foo)]))]]>>) }
FewFollowUpReplies == { AssistantMessage(Lit("Done."), <<>>) }
FewErrors == { APIError(Num(429), Undef, "Rate limit reached") }
FewLatencies == {1200}
FewDisks == { [file |-> Missing, writable |-> TRUE] }

\* the task file and the file system a tool can be called on
ToolDisks == InitialDisks \cup { [file |-> JSONstringify(ThreeTasks), writable |-> TRUE] }

\* the inputs of SpecTool
ToolNames ==
  {"create-task", "list-tasks", "mark-complete", "update-task", "delete-everything",
   "list_tasks", ""}

ToolInputs ==
  { Object([id |-> i, title |-> ti, done |-> d]) :
      i \in {Undef, Null, Num(5), S(<<"5">>), S(Foo), S(<<>>)},
      ti \in {Undef, S(<<"F", "O", "O", " ">>), S(<<"z">>), S(<<>>)},
      d \in {Undef, Bool(TRUE), Bool(FALSE)} }
    \cup
  { Object([id |-> i, title |-> ti, name |-> n, task |-> ta, query |-> q]) :
      i \in {Undef, Null},
      ti \in {Undef, Null},
      n \in {Undef, S(<<"b", "a">>)},
      ta \in {Undef, S(Foo)},
      q \in {Undef, S(<<"5">>)} }
    \cup
  { Null, Num(5) }

\* what can be in #chat-input when the form is submitted
InputValues == { <<" ">>, <<" ">> \o Hi \o <<" ">>, Hi }

(***************************************************************************)
(* The task panel of the page: renderTasks and fetchTasks.                 *)
(***************************************************************************)
\* `${v}` for the values a task field can hold
TemplateText(v) ==
  CASE v.t = "undefined" -> <<"u", "n", "d", "e", "f", "i", "n", "e", "d">>
    [] v.t = "null" -> <<"n", "u", "l", "l">>
    [] OTHER -> StringOf(v)

\* the <div class="task"> written for one task
TaskHtml(task) ==
  [class |-> IF Truthy(task.done) THEN "task done" ELSE "task ",
   title |-> TemplateText(task.title),
   id |-> <<"I", "D", " ">> \o TemplateText(task.id),
   state |-> IF Truthy(task.done) THEN "Done" ELSE "Open"]

\* #tasks before the first renderTasks, as the document has it
InitialTasksHtml == [html |-> "document"]
\* <div class="status">No tasks yet.</div>
NoTasksYet == [html |-> "status", text |-> "No tasks yet."]

\* renderTasks(tasks): the new innerHTML of #tasks
renderTasks(tasks) ==
  IF Len(tasks) = 0 THEN NoTasksYet
  ELSE [html |-> "tasks", items |-> [i \in 1..Len(tasks) |-> TaskHtml(tasks[i])]]

\* what fetch('/tools/list-tasks') and res.json() can come to
FetchRejected == [kind |-> "rejected"]
NotOk == [kind |-> "response", ok |-> FALSE]
OkUnreadable == [kind |-> "response", ok |-> TRUE, readable |-> FALSE]
Ok(data) == [kind |-> "response", ok |-> TRUE, readable |-> TRUE, data |-> data]

\* the try block of fetchTasks: what it writes, or that it threw
TryFetchTasks(response, at) ==
  IF response.kind = "rejected"
  THEN [threw |-> TRUE, message |-> "Failed to fetch"]
  ELSE IF ~response.ok
  THEN [threw |-> TRUE, message |-> "Failed to fetch tasks"]
  ELSE IF ~response.readable
  THEN [threw |-> TRUE, message |-> "Unexpected end of JSON input"]
  ELSE [threw |-> FALSE,
        tasks |-> renderTasks(response.data.tasks),
        taskStatus |-> [text |-> "Updated ", time |-> at]]

\* a variant without the catch block
fetchTasks_NoCatch(response, shown, at) ==
  LET try == TryFetchTasks(response, at)
  IN  IF try.threw
      THEN [threw |-> TRUE, message |-> try.message,
            tasks |-> shown.tasks, taskStatus |-> shown.taskStatus]
      ELSE [threw |-> FALSE, message |-> "",
            tasks |-> try.tasks, taskStatus |-> try.taskStatus]

\* fetchTasks, from the response to its request on: what #tasks and
\* #task-status hold when it has settled, and whether it threw
fetchTasks(response, shown, at) ==
  LET try == TryFetchTasks(response, at)
  IN  IF try.threw
      THEN [threw |-> FALSE, message |-> "",
            tasks |-> shown.tasks,
            taskStatus |-> [text |-> "Unable to load tasks."]]
      ELSE [threw |-> FALSE, message |-> "",
            tasks |-> try.tasks, taskStatus |-> try.taskStatus]

\* how a request to GET /tools/list-tasks can end
FetchOutcomes == {"ok", "not ok", "rejected", "unreadable"}
FewFetchOutcomes == {"ok"}

\* the request is served by listTasks unless it never reaches the server
ListTasksServed(outcome, env) ==
  LET served == listTasks(env)
  IN  CASE outcome = "ok" -> [file |-> served.file, response |-> Ok(served.out)]
        [] outcome = "unreadable" -> [file |-> served.file, response |-> OkUnreadable]
        [] outcome = "not ok" -> [file |-> env.file, response |-> NotOk]
        [] OTHER -> [file |-> env.file, response |-> FetchRejected]

\* the page once a fetchTasks has settled
PageAfter(response, r) ==
  [tasks |-> r.tasks, taskStatus |-> r.taskStatus, loaded |-> TRUE,
   lastFetch |-> [url |-> "/tools/list-tasks", response |-> response,
                  threw |-> r.threw, shown |-> page.tasks]]

InitialPage ==
  [tasks |-> InitialTasksHtml, taskStatus |-> [text |-> ""], loaded |-> FALSE,
   lastFetch |-> [t |-> "none"]]

(***************************************************************************)
(* The initial state: the server has started, the page's script has run.   *)
(***************************************************************************)
InitWith(disks) ==
  /\ client \in BOOLEAN
  /\ \E d \in disks : file = d.file /\ writable = d.writable
  /\ now = 6
  /\ turn = [t \in Turns |-> IdleTurn]
  /\ conversation = <<SystemMessage>>
  /\ sendDisabled = FALSE
  /\ page = InitialPage
  /\ probe = None

Init == InitWith(InitialDisks)

InitFew == InitWith(FewDisks)

Env == [file |-> file, writable |-> writable, now |-> now]

\* requests are numbered in the order they are sent
NextToSend(t) ==
  /\ turn[t].pc = "idle"
  /\ \A u \in Turns : u < t => turn[u].pc # "idle"

(***************************************************************************)
(* The browser page.                                                       *)
(***************************************************************************)
\* the submit handler of #chat-form up to the fetch of sendChat; with a
\* blank input it returns at once and nothing changes
ChatFormSubmit(t) ==
  /\ NextToSend(t)
  /\ \E value \in InputValues :
       LET message == Trim(value)
           pushed == Append(conversation, UserMessage(S(message)))
       IN  /\ message # <<>>
           /\ conversation' = pushed
           /\ sendDisabled' = TRUE
           /\ turn' = [turn EXCEPT ![t] =
                 [IdleTurn EXCEPT !.pc = "sent", !.from = "browser",
                    !.body = [message |-> S(message), messages |-> Arr(pushed)]]]
  /\ UNCHANGED <<client, file, writable, now, page, probe>>

\* a click on #chat-send, which a disabled button does not deliver
ClickSend(t) == ~sendDisabled /\ ChatFormSubmit(t)

\* the keyup handler of #chat-input: Ctrl+Enter dispatches submit
CtrlEnter(t) == ChatFormSubmit(t)

\* the text sendChat throws for a response that is not ok
ChatErrorText(res) ==
  Lit("Chat request failed (" \o ToString(res.status) \o "): " \o res.body.error)

\* a request whose response was delivered: the handler's locals are gone
Delivered(t, pc) == [IdleTurn EXCEPT !.pc = pc, !.from = turn[t].from]

\* the response to the fetch of sendChat arrives: sendChat goes on to its end
\* and the submit handler to its next await (fetchTasks) or, when sendChat
\* threw, through catch and finally
ChatResponse(t) ==
  /\ turn[t].pc = "done"
  /\ turn[t].from = "browser"
  /\ IF turn[t].res.status = 200
     THEN /\ conversation' = turn[t].res.body.messages
          /\ turn' = [turn EXCEPT ![t] = Delivered(t, "fetchTasks")]
          /\ UNCHANGED sendDisabled
     ELSE /\ conversation' =
               Append(conversation,
                      [role |-> "assistant", content |-> ChatErrorText(turn[t].res)])
          /\ turn' = [turn EXCEPT ![t] = Delivered(t, "closed")]
          /\ sendDisabled' = FALSE
  /\ UNCHANGED <<client, file, writable, now, page, probe>>

\* fetchTasks after a chat: GET /tools/list-tasks is served (listTasks),
\* fetchTasks settles and the submit handler ends in its finally block,
\* through its catch block had fetchTasks thrown
FetchTasksAfterChat(t, outcomes) ==
  /\ turn[t].pc = "fetchTasks"
  /\ \E outcome \in outcomes :
       LET served == ListTasksServed(outcome, Env)
           r == fetchTasks(served.response, page, now)
       IN  /\ file' = served.file
           /\ page' = PageAfter(served.response, r)
           /\ conversation' =
                IF r.threw
                THEN Append(conversation, [role |-> "assistant", content |-> Lit(r.message)])
                ELSE conversation
  /\ sendDisabled' = FALSE
  /\ turn' = [turn EXCEPT ![t].pc = "closed"]
  /\ UNCHANGED <<client, writable, now, probe>>

\* DOMContentLoaded: fetchTasks, served and settled, then renderMessages
DOMContentLoaded(outcomes) ==
  /\ ~page.loaded
  /\ \E outcome \in outcomes :
       LET served == ListTasksServed(outcome, Env)
           r == fetchTasks(served.response, page, now)
       IN  /\ file' = served.file
           /\ page' = PageAfter(served.response, r)
  /\ UNCHANGED <<client, writable, now, turn, conversation, sendDisabled, probe>>

\* some other client posts to /chat
ClientRequest(t, bodies) ==
  /\ NextToSend(t)
  /\ \E body \in bodies :
       turn' = [turn EXCEPT ![t] =
                  [IdleTurn EXCEPT !.pc = "sent", !.from = "client", !.body = body]]
  /\ UNCHANGED <<client, file, writable, now, conversation, sendDisabled, page, probe>>

\* the other client gets its response
ClientResponse(t) ==
  /\ turn[t].pc = "done"
  /\ turn[t].from = "client"
  /\ turn' = [turn EXCEPT ![t] = Delivered(t, "closed")]
  /\ UNCHANGED <<client, file, writable, now, conversation, sendDisabled, page, probe>>

(***************************************************************************)
(* The POST /chat handler, one action for each of its three stretches      *)
(* between awaits.                                                         *)
(***************************************************************************)
Fail(t, error) ==
  [turn[t] EXCEPT !.pc = "done", !.err = error, !.res = ChatCatch(error)]

\* the label of a call that took longer than the deadline
Late(latency, label) == IF latency > TIMEOUT_MS THEN label ELSE OnTime

\* a variant that goes on without a client
ChatStart_NoKeyCheck(t) ==
  /\ turn[t].pc = "sent"
  /\ turn' = [turn EXCEPT ![t].pc = "awaitFirst",
                          ![t].convo = PrepareTranscript(turn[t].body),
                          ![t].calls = <<FirstLabel>>,
                          ![t].fileAtStart = file]
  /\ UNCHANGED <<client, file, writable, now, conversation, sendDisabled, page, probe>>

\* from the start of the handler to the first completion call
ChatStart(t) ==
  /\ turn[t].pc = "sent"
  /\ IF ~client
     THEN turn' = [turn EXCEPT ![t].pc = "done", ![t].res = MissingKeyResponse,
                               ![t].fileAtStart = file]
     ELSE turn' = [turn EXCEPT ![t].pc = "awaitFirst",
                               ![t].convo = PrepareTranscript(turn[t].body),
                               ![t].calls = <<FirstLabel>>,
                               ![t].fileAtStart = file]
  /\ UNCHANGED <<client, file, writable, now, conversation, sendDisabled, page, probe>>

\* a variant whose tool calls work on the task file as it was when the
\* request arrived
ToolEnv_ReadAtStart(t) == [Env EXCEPT !.file = turn[t].fileAtStart]

\* what the tool calls of a turn work on: every operation reads TASKS_FILE
\* itself, so the first one finds the file as it is when the loop starts
ToolEnv(t) == Env

\* the first completion call settles: the assistant message is pushed, its
\* tool calls are dispatched and the follow-up call is issued
FirstCompletionSettles(t, replies, errors, latencies) ==
  /\ turn[t].pc = "awaitFirst"
  /\ \E outcome \in {Resolved(m) : m \in replies} \cup {Rejected(e) : e \in errors},
        latency \in latencies :
       \E settled \in withTimeout(outcome, latency, FirstLabel) :
         IF ~settled.ok
         THEN /\ turn' = [turn EXCEPT ![t] =
                   [Fail(t, settled.err) EXCEPT !.late = Late(latency, FirstLabel)]]
              /\ UNCHANGED <<file, now>>
         ELSE LET assistantMessage == settled.value
                  pushed == Append(turn[t].convo, assistantMessage)
                  calls == assistantMessage.tool_calls
              IN  IF HasToolCalls(assistantMessage)
                  THEN \E ticks \in [1..Len(calls) -> {0, 1}] :
                         LET run == RunToolCalls(calls, 1, pushed, ToolEnv(t), <<>>, ticks)
                         IN  /\ run.now <= MaxNow
                             /\ file' = run.file
                             /\ now' = run.now
                             /\ turn' = [turn EXCEPT ![t] =
                                  IF run.threw
                                  THEN [Fail(t, run.err) EXCEPT
                                          !.assistantMessage = assistantMessage,
                                          !.convo = run.convo, !.log = run.log]
                                  ELSE [turn[t] EXCEPT
                                          !.pc = "awaitFollowUp",
                                          !.assistantMessage = assistantMessage,
                                          !.convo = run.convo,
                                          !.log = run.log,
                                          !.calls = Append(@, FollowUpLabel)]]
                  ELSE /\ turn' = [turn EXCEPT ![t] =
                            [turn[t] EXCEPT !.pc = "done", !.convo = pushed,
                                            !.assistantMessage = assistantMessage,
                                            !.res = ChatOk(assistantMessage, pushed)]]
                       /\ UNCHANGED <<file, now>>
  /\ UNCHANGED <<client, writable, conversation, sendDisabled, page, probe>>

\* the follow-up completion call settles
FollowUpSettles(t, replies, errors, latencies) ==
  /\ turn[t].pc = "awaitFollowUp"
  /\ \E outcome \in {Resolved(m) : m \in replies} \cup {Rejected(e) : e \in errors},
        latency \in latencies :
       \E settled \in withTimeout(outcome, latency, FollowUpLabel) :
         IF ~settled.ok
         THEN turn' = [turn EXCEPT ![t] =
                 [Fail(t, settled.err) EXCEPT !.late = Late(latency, FollowUpLabel)]]
         ELSE LET finalMessage == settled.value
                  pushed == Append(turn[t].convo, finalMessage)
              IN  turn' = [turn EXCEPT ![t] =
                     [turn[t] EXCEPT !.pc = "done", !.convo = pushed,
                                     !.finalMessage = finalMessage,
                                     !.res = ChatOk(finalMessage, pushed)]]
  /\ UNCHANGED <<client, file, writable, now, conversation, sendDisabled, page, probe>>

(***************************************************************************)
(* Direct calls of the dispatcher.                                         *)
(***************************************************************************)
Dispatch(toolName, input) ==
  /\ probe = None
  /\ LET r == executeTool(toolName, input, Env)
     IN  /\ file' = r.file
         /\ probe' = [toolName |-> toolName, input |-> input, before |-> file,
                      threw |-> r.threw, out |-> r.out]
  /\ UNCHANGED <<client, writable, now, turn, conversation, sendDisabled, page>>

(***************************************************************************)
(* The tool routes.  A response is its status and its JSON body; a throw    *)
(* that leaves a handler is answered by Express with status 500 and an      *)
(* error page.                                                              *)
(***************************************************************************)
Json(store, status, body) == [file |-> store, status |-> status, body |-> body]

\* Express's default error handler
Uncaught(store, err) ==
  [file |-> store, status |-> 500, body |-> [html |-> "error", message |-> err.message]]

VercelNote ==
  "Tasks in Vercel are stored in /tmp and reset on each cold start. Consider using a database for persistence."

\* app.post('/tools/create-task')
PostCreateTask(body, env) ==
  LET result == createTask(Get(body, "title"), env)
  IN  IF result.threw
      THEN Json(result.file, 500,
                [success |-> FALSE, error |-> result.out.message, note |-> VercelNote])
      ELSE Json(result.file, 200, result.out)

\* app.get('/tools/list-tasks')
GetListTasks(env) ==
  LET result == listTasks(env) IN Json(result.file, 200, result.out)

\* app.post('/tools/mark-complete')
PostMarkComplete(body, env) ==
  LET result == markCompleteByIdOrTitle(Coalesce(Get(body, "id"), Get(body, "title")), env)
  IN  IF result.threw THEN Uncaught(result.file, result.out)
      ELSE IF ~result.out.success THEN Json(result.file, 400, result.out)
      ELSE Json(result.file, 200, result.out)

\* app.post('/tools/update-task')
PostUpdateTask(body, env) ==
  LET result == updateTask(Get(body, "id"), Get(body, "title"), Get(body, "done"), env)
  IN  IF result.threw THEN Uncaught(result.file, result.out)
      ELSE IF ~result.out.success THEN Json(result.file, 400, result.out)
      ELSE Json(result.file, 200, result.out)

ToolRoutes == {"create-task", "list-tasks", "mark-complete", "update-task"}

\* req.body after express.json() and express.urlencoded(): an object
RouteBodies == {input \in ToolInputs : input.t = "object"}

\* one request to /tools/<tool>
ToolRequest(route, body) ==
  /\ probe = None
  /\ LET res == CASE route = "create-task" -> PostCreateTask(body, Env)
                  [] route = "list-tasks" -> GetListTasks(Env)
                  [] route = "mark-complete" -> PostMarkComplete(body, Env)
                  [] route = "update-task" -> PostUpdateTask(body, Env)
     IN  /\ file' = res.file
         /\ probe' = [route |-> route, body |-> body, before |-> file,
                      status |-> res.status, sent |-> res.body]
  /\ UNCHANGED <<client, writable, now, turn, conversation, sendDisabled, page>>

(***************************************************************************)
(* The specifications.                                                     *)
(*                                                                         *)
(* Spec: the page and other clients send up to MaxTurns requests, which    *)
(* the server handles interleaved at their awaits; the model's replies are *)
(* drawn from a few.                                                       *)
(* SpecTurn: one request of a client, with all the replies and errors.     *)
(* SpecPage: the page loads and sends one request; its requests for the   *)
(* task list end in every way.                                             *)
(* SpecTool: one call of executeTool on every input.                       *)
(***************************************************************************)
Next ==
  \E t \in Turns :
    \/ ClickSend(t)
    \/ CtrlEnter(t)
    \/ ChatResponse(t)
    \/ FetchTasksAfterChat(t, FewFetchOutcomes)
    \/ ClientRequest(t, FewBodies)
    \/ ClientResponse(t)
    \/ ChatStart(t)
    \/ FirstCompletionSettles(t, FewReplies, FewErrors, FewLatencies)
    \/ FollowUpSettles(t, FewFollowUpReplies, FewErrors, FewLatencies)

Spec == InitFew /\ [][Next]_vars

NextTurn ==
  \/ ClientRequest(1, ClientBodies)
  \/ ChatStart(1)
  \/ FirstCompletionSettles(1, FirstReplies, APIErrors, Latencies)
  \/ FollowUpSettles(1, FollowUpReplies, APIErrors, Latencies)

SpecTurn == Init /\ [][NextTurn]_vars

NextPage ==
  \/ DOMContentLoaded(FetchOutcomes)
  \/ ClickSend(1)
  \/ CtrlEnter(1)
  \/ ChatStart(1)
  \/ FirstCompletionSettles(1, FewReplies, FewErrors, FewLatencies)
  \/ FollowUpSettles(1, FewFollowUpReplies, FewErrors, FewLatencies)
  \/ ChatResponse(1)
  \/ FetchTasksAfterChat(1, FetchOutcomes)

SpecPage == Init /\ [][NextPage]_vars

NextTool == \E toolName \in ToolNames, input \in ToolInputs : Dispatch(toolName, input)

InitTool == InitWith(ToolDisks)

SpecTool == InitTool /\ [][NextTool]_vars

\* SpecShared: the requests of up to MaxTurns clients and one request to a
\* tool route, handled by one server and interleaved at the awaits
SharedCall(i, name, input) ==
  [id |-> CallId(i), type |-> "function",
   function |-> [name |-> name, arguments |-> JSONstringify(input)]]

SharedReplies ==
  { AssistantMessage(Lit("Hello."), <<>>),
    AssistantMessage(Null, <<SharedCall(1, "create-task", Object([title |-> S(Foo)]))>>),
    AssistantMessage(Null, <<SharedCall(1, "mark-complete", Object([title |-> S(Foo)]))>>),
    AssistantMessage(Null, <<SharedCall(1, "create-task", Object([title |-> S(Foo)])),
                             SharedCall(2, "update-task",
                                        Object([id |-> Num(6), title |-> S(<<"z">>)]))>>) }

SharedBodies ==
  { Object([title |-> S(Foo)]), Object([id |-> Num(6), done |-> Bool(TRUE)]) }

SharedClientBodies == { Body(S(Hi), Arr(<<>>)) }

NextShared ==
  \/ \E t \in Turns :
       \/ ClientRequest(t, SharedClientBodies)
       \/ ClientResponse(t)
       \/ ChatStart(t)
       \/ FirstCompletionSettles(t, SharedReplies, FewErrors, FewLatencies)
       \/ FollowUpSettles(t, FewFollowUpReplies, FewErrors, FewLatencies)
  \/ \E route \in ToolRoutes, body \in SharedBodies : ToolRequest(route, body)

SpecShared == InitFew /\ [][NextShared]_vars

\* SpecRoute: one request to a tool route on every body
NextRoute == \E route \in ToolRoutes, body \in RouteBodies : ToolRequest(route, body)

SpecRoute == InitTool /\ [][NextRoute]_vars

(***************************************************************************)
(* The properties.                                                         *)
(***************************************************************************)
Started(t) == turn[t].pc \notin {"idle", "sent"}
Answered(t) == turn[t].res # None
Succeeded(t) == Answered(t) /\ turn[t].res.status = 200
Failed(t) == Answered(t) /\ turn[t].res.status # 200

\* the messages array of the request (none when it is not an array)
Req(t) == IF turn[t].body.messages.t = "array" THEN turn[t].body.messages.a ELSE <<>>
\* the messages of the response
Out(t) == turn[t].res.body.messages

\* the tool calls of the first assistant message
FirstCalls(t) ==
  IF turn[t].assistantMessage = None THEN <<>> ELSE turn[t].assistantMessage.tool_calls

CountOf(seq, x) == Cardinality({i \in 1..Len(seq) : seq[i] = x})
CountRole(seq, role) == Cardinality({i \in 1..Len(seq) : seq[i].role = role})

\* a result {success: false, error}
Recoverable(result) == "success" \in DOMAIN result /\ result.success = FALSE

\* C1 as stated, for the turns of a server that has a credential: every
\* answered turn has issued exactly one first completion call, and a follow-up
\* call exactly when the first assistant message carries tool calls.
C1_Original ==
  \A t \in Turns :
    (client /\ Answered(t)) =>
      /\ CountOf(turn[t].calls, FirstLabel) = 1
      /\ CountOf(turn[t].calls, FollowUpLabel) = (IF Len(FirstCalls(t)) > 0 THEN 1 ELSE 0)
      /\ Len(turn[t].calls) <= 2

\* C1, amended: a turn issues no completion call before the handler has
\* started or when no credential is configured, and otherwise exactly one
\* first call; it issues a follow-up call, exactly one, if and only if the
\* first assistant message carries tool calls and all of them were parsed and
\* executed without a throw; it never issues more than two calls; and the
\* tool calls of the follow-up message are not executed: the tools executed
\* are those of the first message and the follow-up message ends the
\* transcript.
C1_CompletionCalls ==
  \A t \in Turns :
    /\ CountOf(turn[t].calls, FirstLabel) = (IF Started(t) /\ client THEN 1 ELSE 0)
    /\ CountOf(turn[t].calls, FollowUpLabel) =
         (IF Len(FirstCalls(t)) > 0 /\ Len(turn[t].log) = Len(FirstCalls(t)) THEN 1 ELSE 0)
    /\ Len(turn[t].calls) <= 2
    /\ Len(turn[t].calls) > 0 => turn[t].calls[1] = FirstLabel
    /\ Len(turn[t].log) <= Len(FirstCalls(t))
    /\ \A i \in 1..Len(turn[t].log) : turn[t].log[i].call = i
    /\ turn[t].finalMessage # None =>
         /\ Len(turn[t].log) = Len(FirstCalls(t))
         /\ Succeeded(t)
         /\ Out(t)[Len(Out(t))] = turn[t].finalMessage
         /\ Out(t)[Len(Out(t)) - 1].role = "tool"

\* a turn has ended whose follow-up message carries a tool call
C1_Witness ==
  \E t \in Turns :
    /\ Succeeded(t)
    /\ turn[t].finalMessage # None
    /\ Len(turn[t].finalMessage.tool_calls) > 0
    /\ Len(turn[t].calls) = 2

\* the position in the response of the assistant message of the first call
FirstAt(t) ==
  CHOOSE k \in (Len(Req(t)) + 1)..Len(Out(t)) : Out(t)[k] = turn[t].assistantMessage

\* C2: in a returned transcript the first assistant message with tool calls
\* c1..cn is directly followed by exactly n tool messages, the i-th carrying
\* the identifier of ci, and every tool message from there on carries the
\* identifier of a tool call of the nearest assistant message before it.
C2_ToolMessagesInOrder ==
  \A t \in Turns :
    (Succeeded(t) /\ Len(FirstCalls(t)) > 0) =>
      LET out == Out(t)
          n == Len(FirstCalls(t))
          k == FirstAt(t)
      IN  /\ \E j \in (Len(Req(t)) + 1)..Len(out) : out[j] = turn[t].assistantMessage
          /\ k + n < Len(out)
          /\ \A i \in 1..n :
               /\ out[k + i].role = "tool"
               /\ out[k + i].tool_call_id = FirstCalls(t)[i].id
          /\ out[k + n + 1].role # "tool"
          /\ \A j \in (k + 1)..Len(out) :
               out[j].role = "tool" =>
                 LET a == CHOOSE i \in 1..(j - 1) :
                            /\ out[i].role = "assistant"
                            /\ \A h \in (i + 1)..(j - 1) : out[h].role # "assistant"
                 IN  \E c \in 1..Len(out[a].tool_calls) :
                       out[a].tool_calls[c].id = out[j].tool_call_id

\* a transcript was returned for two tool calls of different tools
C2_Witness ==
  \E t \in Turns :
    /\ Succeeded(t)
    /\ Len(FirstCalls(t)) = 2
    /\ FirstCalls(t)[1].function.name # FirstCalls(t)[2].function.name

HasSystem(seq) == \E i \in 1..Len(seq) : seq[i].role = "system"

\* what C3 says of a turn whose assistant message carries no tool call
C3_NoToolTurn(t) ==
  (Succeeded(t) /\ Len(FirstCalls(t)) = 0) =>
    /\ CountRole(Out(t), "assistant") = CountRole(Req(t), "assistant") + 1
    /\ Out(t)[Len(Out(t))] = turn[t].assistantMessage
    /\ CountRole(Out(t), "tool") = CountRole(Req(t), "tool")
    /\ turn[t].calls = <<FirstLabel>>
    /\ turn[t].log = <<>>
    /\ file = turn[t].fileAtStart

\* C3 as stated: the returned messages start with the messages of the
\* request, so that everything created in the turn comes after them.
C3_Original ==
  \A t \in Turns :
    /\ Succeeded(t) =>
         /\ Len(Out(t)) >= Len(Req(t))
         /\ SubSeq(Out(t), 1, Len(Req(t))) = Req(t)
    /\ C3_NoToolTurn(t)

\* C3, amended: the returned messages hold the messages of the request
\* unaltered, in their order and next to each other, with at most the default
\* system message before them, which is there only when no message of the
\* request has role system; everything else created in the turn comes after
\* them.  With no tool call exactly one assistant message is added and it is
\* the last, no follow-up call is issued and the task file is as it was.
C3_AppendOnly ==
  \A t \in Turns :
    /\ Succeeded(t) =>
         \E pre \in {<<>>, <<SystemMessage>>} :
           /\ pre # <<>> => ~HasSystem(Req(t))
           /\ Len(Out(t)) >= Len(pre) + Len(Req(t))
           /\ SubSeq(Out(t), 1, Len(pre) + Len(Req(t))) = pre \o Req(t)
    /\ C3_NoToolTurn(t)

\* a turn without tool calls has ended whose request had messages but no
\* system message
C3_Witness ==
  \E t \in Turns :
    /\ Succeeded(t)
    /\ Len(FirstCalls(t)) = 0
    /\ Len(Req(t)) > 1
    /\ ~HasSystem(Req(t))
    /\ Out(t)[1] = SystemMessage

\* the number of user messages with the given content
Copies(seq, content) ==
  Cardinality({i \in 1..Len(seq) : seq[i].role = "user" /\ seq[i].content = content})

\* the request's messages end with the user message that is also its message
AlreadyLast(t) ==
  /\ Req(t) # <<>>
  /\ Req(t)[Len(Req(t))] = UserMessage(turn[t].body.message)

\* C4: when the last of the request's messages is the user message that the
\* request also gives as message, the transcript sent to the model and the
\* transcript returned hold as many copies of that user message as the
\* request's messages did, so none was added; every request of the page is of
\* that kind, and its user message is in the returned transcript as many
\* times as in the page's conversation, once when it was not there before.
C4_UserAppendIdempotent ==
  \A t \in Turns :
    /\ (turn[t].from = "browser" /\ turn[t].body # None) => AlreadyLast(t)
    /\ (turn[t].body # None /\ AlreadyLast(t)) =>
         LET message == turn[t].body.message
         IN  /\ (Started(t) /\ client) =>
                  Copies(turn[t].convo, message) = Copies(Req(t), message)
             /\ Succeeded(t) =>
                  /\ Copies(Out(t), message) = Copies(Req(t), message)
                  /\ Copies(SubSeq(Req(t), 1, Len(Req(t)) - 1), message) = 0 =>
                       Copies(Out(t), message) = 1

\* a later request of the page, sent with the earlier exchange in front of
\* its user message, was answered; the returned transcript holds that user
\* message as many times as the request did
C4_Witness ==
  \E t \in Turns :
    /\ turn[t].from = "browser"
    /\ turn[t].body # None
    /\ Succeeded(t)
    /\ Len(Req(t)) > 2
    /\ AlreadyLast(t)
    /\ Copies(Out(t), turn[t].body.message) = Copies(Req(t), turn[t].body.message)

TimedOutText(label) == label \o " timed out after 5000ms"

\* C5 as stated: a turn one of whose completion calls outlasted the deadline
\* has failed with the time-out message and has executed no tool.
C5_Original ==
  \A t \in Turns :
    turn[t].late # OnTime =>
      /\ Failed(t)
      /\ turn[t].res.body.error = TimedOutText(turn[t].late)
      /\ turn[t].log = <<>>

\* C5, amended: a turn one of whose completion calls outlasted the deadline
\* has failed with the message "<label> timed out after 5000ms" and executes
\* no tool after that: none at all when it was the first call, and when it was
\* the follow-up call only the tool calls of the first assistant message,
\* which were executed before the follow-up call was issued.
C5_Timeout ==
  \A t \in Turns :
    turn[t].late # OnTime =>
      /\ Failed(t)
      /\ turn[t].res.body.error = TimedOutText(turn[t].late)
      /\ turn[t].late \in {FirstLabel, FollowUpLabel}
      /\ turn[t].late = FirstLabel =>
           turn[t].log = <<>> /\ turn[t].assistantMessage = None
      /\ turn[t].late = FollowUpLabel =>
           /\ turn[t].finalMessage = None
           /\ Len(turn[t].log) = Len(FirstCalls(t))
           /\ turn[t].convo[Len(turn[t].convo)].role = "tool"

\* the follow-up call of a turn that has executed a tool timed out
C5_Witness ==
  \E t \in Turns :
    /\ turn[t].late = FollowUpLabel
    /\ turn[t].log # <<>>
    /\ turn[t].res.status = 500

\* the status the claim gives for a thrown error: status, or statusCode when
\* there is no status, if that is a number from 400 to 599, and 500 otherwise
C6_Status(error) ==
  LET given == IF Truthy(error.status) THEN error.status ELSE error.statusCode
      value == CASE given.t = "number" -> given.n
                 [] given.t = "string" /\ ToNumber(given).t = "number" -> ToNumber(given).n
                 [] OTHER -> 0
  IN  IF value \in 400..599 THEN value ELSE 500

\* C6: the body of the answer to a failed turn has the one field error, a
\* non-empty text; the status is between 400 and 599; it is 503 when no
\* credential is configured and otherwise the status of the error caught when
\* that is within 400..599, and 500 if not.
C6_ErrorResponse ==
  \A t \in Turns :
    Failed(t) =>
      /\ DOMAIN turn[t].res.body = {"error"}
      /\ turn[t].res.body.error \in STRING
      /\ turn[t].res.body.error # ""
      /\ turn[t].res.status \in 400..599
      /\ turn[t].err = None => ~client /\ turn[t].res.status = 503
      /\ turn[t].err # None => turn[t].res.status = C6_Status(turn[t].err)

\* a turn failed with an error whose status is out of range, and one with a
\* status in range
C6_Witness ==
  \E t \in Turns :
    /\ Failed(t)
    /\ turn[t].err # None
    /\ turn[t].err.status = Num(302)
    /\ turn[t].res.status = 500

\* C7: without a credential every answer is the 503 error, no completion
\* call is issued, no tool is executed and the task file is as it was when the
\* handler started; the handler never waits.
C7_MissingKey ==
  \A t \in Turns :
    ~client =>
      /\ turn[t].pc \notin {"awaitFirst", "awaitFollowUp"}
      /\ turn[t].calls = <<>>
      /\ turn[t].log = <<>>
      /\ Answered(t) =>
           /\ turn[t].res.status = 503
           /\ DOMAIN turn[t].res.body = {"error"}
           /\ file = turn[t].fileAtStart

\* a request was answered by a server without a credential
C7_Witness == \E t \in Turns : ~client /\ Answered(t) /\ turn[t].res.status = 503

\* the messages of the errors that end a turn inside the tool-call loop: the
\* arguments were not JSON, or the task file could not be written
FatalInLoop ==
  { "Unexpected token in JSON",
    "Failed to save tasks. Tasks are ephemeral in serverless environment." }

\* the tool message of the i-th executed call is in the transcript, right
\* after the assistant message and the tool messages before it
ToolMessageInPlace(t, i) ==
  \E k \in 1..Len(turn[t].convo) :
    /\ turn[t].convo[k] = turn[t].assistantMessage
    /\ k + i <= Len(turn[t].convo)
    /\ turn[t].convo[k + i] =
         [role |-> "tool", tool_call_id |-> FirstCalls(t)[i].id,
          content |-> JSONstringify(turn[t].log[i].result)]

\* C8 as stated: once a tool call of a turn has returned {success: false},
\* all tool calls of the turn are executed and the follow-up call is issued.
C8_Original ==
  \A t \in Turns :
    (\E i \in 1..Len(turn[t].log) : Recoverable(turn[t].log[i].result)) =>
      /\ Len(turn[t].log) = Len(FirstCalls(t))
      /\ CountOf(turn[t].calls, FollowUpLabel) = 1

\* C8, amended: a result {success: false} is put into the transcript as the
\* tool message of its call and does not end the turn: the calls after it are
\* executed and the follow-up call is issued unless a later call throws, and a
\* turn ends inside the loop only by a throw of the call that comes next, with
\* arguments that are not JSON or a task file that cannot be written.
C8_RecoverableContinues ==
  \A t \in Turns :
    turn[t].assistantMessage # None =>
      LET n == Len(FirstCalls(t))
          done == Len(turn[t].log)
      IN  /\ \A i \in 1..done :
               Recoverable(turn[t].log[i].result) => ToolMessageInPlace(t, i)
          /\ (done = n /\ n > 0) => CountOf(turn[t].calls, FollowUpLabel) = 1
          /\ done < n =>
               /\ Failed(t)
               /\ turn[t].err.message \in FatalInLoop
               /\ \/ FirstCalls(t)[done + 1].function.arguments = Malformed
                  \/ ~writable

\* a tool call returned {success: false}, the next call was executed and the
\* follow-up call issued
C8_Witness ==
  \E t \in Turns :
    /\ Len(turn[t].log) = 2
    /\ Recoverable(turn[t].log[1].result)
    /\ turn[t].calls = <<FirstLabel, FollowUpLabel>>
    /\ Succeeded(t)

KnownTools == {"create-task", "list-tasks", "mark-complete", "update-task"}

\* C9: executeTool with a name that is none of the four tools returns
\* {success: false, error: "Unknown tool: <name>"}, does not throw and leaves
\* the task file as it was, whatever the input.
C9_UnknownTool ==
  (probe # None /\ probe.toolName \notin KnownTools) =>
    /\ ~probe.threw
    /\ probe.out = [success |-> FALSE, error |-> "Unknown tool: " \o probe.toolName]
    /\ file = probe.before

\* delete-everything was called with an identifier and a title
C9_Witness ==
  /\ probe # None
  /\ probe.toolName = "delete-everything"
  /\ Get(probe.input, "id") = Num(5)
  /\ probe.out.error = "Unknown tool: delete-everything"

IdentifierKeys == <<"id", "title", "name", "task", "query">>

\* the first value among the keys that is neither undefined nor null
FirstPresent(input) ==
  LET present == {i \in 1..Len(IdentifierKeys) :
                    Get(input, IdentifierKeys[i]) \notin {Undef, Null}}
  IN  IF present = {} THEN Undef
      ELSE Get(input, IdentifierKeys[CHOOSE i \in present : \A j \in present : i <= j])

\* C10: mark-complete does what markCompleteByIdOrTitle does with the first
\* present value among id, title, name, task, query; with id 5 and a title
\* that matches another task, the task with id 5 is the one marked done and
\* the task the title matches is left alone.
C10_Precedence ==
  (probe # None /\ probe.toolName = "mark-complete") =>
    LET expected == markCompleteByIdOrTitle(
                      FirstPresent(probe.input),
                      [file |-> probe.before, writable |-> writable, now |-> now])
    IN  /\ probe.threw = expected.threw
        /\ probe.out = expected.out
        /\ file = expected.file
        /\ ( /\ Get(probe.input, "id") = Num(5)
             /\ probe.before = JSONstringify(TwoTasks)
             /\ writable ) =>
               /\ probe.out = [success |-> TRUE]
               /\ file = JSONstringify(<<TwoTasks[1], MarkDone(TwoTasks[2])>>)

\* mark-complete was called with id 5 and a title that matches the task
\* with id 3
C10_Witness ==
  /\ probe # None
  /\ probe.toolName = "mark-complete"
  /\ Get(probe.input, "id") = Num(5)
  /\ Get(probe.input, "title") = S(<<"F", "O", "O", " ">>)
  /\ probe.before = JSONstringify(TwoTasks)
  /\ FirstTitleMatch(TwoTasks, ToLowerCase(Trim(<<"F", "O", "O", " ">>))) = 1
  /\ file = JSONstringify(<<TwoTasks[1], MarkDone(TwoTasks[2])>>)

\* the tasks an operation finds in the task file
TasksIn(f) == readTasks([file |-> f, writable |-> writable, now |-> now]).out

\* a value mark-complete takes for an identifier number
NumericIdentifier(v) ==
  ~IsNaN(ToNumber(v)) /\ v \notin {Str(<<>>), Null, Undef}

\* some task matches the identifier: by its id when the identifier is
\* numeric, by its title otherwise
SomeTaskMatches(tasks, v) ==
  IF NumericIdentifier(v)
  THEN \E i \in 1..Len(tasks) : StrictEq(tasks[i].id, ToNumber(v))
  ELSE /\ v.t = "string"
       /\ ToLowerCase(Trim(v.s)) # <<>>
       /\ FirstTitleMatch(tasks, ToLowerCase(Trim(v.s))) # 0

\* C11: mark-complete returns {success: false, error} when no identifier is
\* given or no task of the file matches it, by id for a numeric identifier
\* and by title otherwise, and then the tasks of the file are as before; it
\* returns success: true only when some task matched.
C11_NoMatchFails ==
  (probe # None /\ probe.toolName = "mark-complete") =>
    LET v == FirstPresent(probe.input)
        matched == SomeTaskMatches(TasksIn(probe.before), v)
    IN  /\ ~matched =>
              /\ ~probe.threw
              /\ Recoverable(probe.out)
              /\ TasksIn(file) = TasksIn(probe.before)
        /\ (~probe.threw /\ probe.out.success) => matched

\* an id that is not given or is not a number: neither a number nor a string
\* of digits
IdAbsentOrNonNumeric(id) ==
  \/ id \in {Undef, Null}
  \/ id.t = "string" /\
       (Trim(id.s) = <<>> \/ \E i \in 1..Len(Trim(id.s)) : ~InSeq(Trim(id.s)[i], Digits))
  \/ id.t \notin {"undefined", "null", "string", "number"}

\* the task with the fields given in the input merged in
MergeSupplied(task, title, done) ==
  [f \in DOMAIN task |->
     IF f = "title" /\ title # Undef THEN title
     ELSE IF f = "done" /\ done # Undef THEN done
     ELSE task[f]]

\* C12: update-task returns a failure result and leaves the tasks as they are
\* when id is absent or not numeric or when neither title nor done is given
\* (an empty title counting as not given when done is not given either);
\* otherwise (on a file system that takes the write) it returns success and
\* the tasks are the old ones, in number and order, with the given fields
\* merged into the task whose id is the given one and nothing else changed.
C12_UpdateMerges ==
  (probe # None /\ probe.toolName = "update-task") =>
    LET id == Get(probe.input, "id")
        title == Get(probe.input, "title")
        done == Get(probe.input, "done")
        old == TasksIn(probe.before)
    IN  IF IdAbsentOrNonNumeric(id) \/ (title \in {Undef, Null, Str(<<>>)} /\ done = Undef)
        THEN /\ ~probe.threw
             /\ Recoverable(probe.out)
             /\ TasksIn(file) = old
        ELSE writable =>
               /\ ~probe.threw
               /\ probe.out = [success |-> TRUE]
               /\ TasksIn(file) =
                    [i \in 1..Len(old) |->
                       IF StrictEq(old[i].id, ToNumber(id))
                       THEN MergeSupplied(old[i], title, done)
                       ELSE old[i]]

\* the tasks the create-task calls of the turn returned, in call order
RECURSIVE CreatedIn(_)
CreatedIn(log) ==
  IF log = <<>> THEN <<>>
  ELSE LET result == log[Len(log)].result
           before == CreatedIn(SubSeq(log, 1, Len(log) - 1))
       IN  IF "task" \in DOMAIN result THEN Append(before, result.task) ELSE before

\* C13: no two tasks of the file have the same id, also after several
\* create-task calls of one turn; every create-task call returned a task
\* {id, title, done: false}, and the tasks created in the turn are the last
\* of the file, in the order of their calls.
C13_UniqueIds ==
  LET tasks == TasksIn(file)
      created == CreatedIn(turn[1].log)
  IN  /\ \A i, j \in 1..Len(tasks) : i # j => tasks[i].id # tasks[j].id
      /\ \A k \in 1..Len(created) :
           /\ DOMAIN created[k] = {"id", "title", "done"}
           /\ created[k].id.t = "number"
           /\ created[k].done = Bool(FALSE)
      /\ Len(tasks) >= Len(created)
      /\ SubSeq(tasks, Len(tasks) - Len(created) + 1, Len(tasks)) = created

(***************************************************************************)
(* Schema translation: the manifest's tools as function schemas.           *)
(***************************************************************************)
\* the longest tools list of a manifest
MaxTools == 2

\* o.key of any value: undefined when the value has no such property
Prop(o, key) ==
  IF o.t = "object" /\ key \in DOMAIN o.f THEN o.f[key] ELSE Undef

\* { type: 'object', properties: {} }
EmptyParameters == Obj([type |-> Lit("object"), properties |-> Obj(<<>>)])

\* the function schema returned for one tool
FunctionSchema(tool, parameters) ==
  [type |-> "function",
   function |-> [name |-> Prop(tool, "name"),
                 description |-> IF Truthy(Prop(tool, "description"))
                                 THEN Prop(tool, "description")
                                 ELSE Lit(""),
                 parameters |-> parameters]]

\* a variant that passes on whatever inputSchema is given
toOpenAITools_AnySchema(manifestConfig) ==
  LET tools == IF Truthy(Prop(manifestConfig, "tools"))
               THEN Prop(manifestConfig, "tools").a
               ELSE <<>>
  IN  [i \in 1..Len(tools) |->
         FunctionSchema(tools[i],
                        IF Truthy(Prop(tools[i], "inputSchema"))
                        THEN Prop(tools[i], "inputSchema")
                        ELSE EmptyParameters)]

\* toOpenAITools of the server
toOpenAITools(manifestConfig) ==
  LET tools == IF Truthy(Prop(manifestConfig, "tools"))
               THEN Prop(manifestConfig, "tools").a
               ELSE <<>>
  IN  [i \in 1..Len(tools) |->
         LET tool == tools[i]
             params == IF Truthy(Prop(tool, "inputSchema")) /\ Prop(tool, "inputSchema") # Null
                       THEN Prop(tool, "inputSchema")
                       ELSE EmptyParameters
         IN  IF Prop(params, "type") # Lit("object")
             THEN FunctionSchema(tool, EmptyParameters)
             ELSE FunctionSchema(tool, params)]

\* toOpenAITools of the command-line chat client
toOpenAIToolsOfChatLoop(manifest) ==
  LET tools == IF Truthy(Prop(manifest, "tools")) THEN Prop(manifest, "tools").a ELSE <<>>
  IN  [i \in 1..Len(tools) |->
         LET tool == tools[i]
             params == IF Truthy(Prop(tool, "inputSchema")) /\ Prop(tool, "inputSchema") # Null
                       THEN Prop(tool, "inputSchema")
                       ELSE EmptyParameters
         IN  IF Prop(params, "type") # Lit("object")
             THEN FunctionSchema(tool, EmptyParameters)
             ELSE FunctionSchema(tool, params)]

\* the inputSchema values of a tool descriptor
InputSchemas ==
  { Undef, Null, Num(0), Lit("object"),
    Obj([type |-> Lit("object"),
         properties |-> Obj([title |-> Obj([type |-> Lit("string")])]),
         required |-> Arr(<<Lit("title")>>)]),
    Obj([type |-> Lit("object")]),
    Obj([type |-> Lit("string")]),
    Obj([properties |-> Obj([id |-> Obj([type |-> Lit("number")])])]) }

\* the tool descriptors of a manifest; description can be left out
ToolDescriptors ==
  { Obj([name |-> Lit(name), inputSchema |-> schema]) :
      name \in {"create-task", "list-tasks"}, schema \in InputSchemas }
    \cup
  { Obj([name |-> Lit(name), description |-> description, inputSchema |-> schema]) :
      name \in {"create-task", "list-tasks"},
      description \in {Lit(""), Lit("Create a task")},
      schema \in InputSchemas }
    \cup
  { Obj([name |-> Lit("list-tasks"), description |-> Lit("List the tasks")]) }

\* the manifests: with up to MaxTools tools, or without a tools list
Manifests ==
  { Obj([name |-> Lit("mcp-playground")]) }
    \cup
  UNION { { Obj([name |-> Lit("mcp-playground"), tools |-> Arr(tools)]) :
              tools \in [1..n -> ToolDescriptors] } : n \in 0..MaxTools }

\* the server and the command-line client translate a manifest
Translate(manifestConfig) ==
  /\ probe = None
  /\ probe' = [manifest |-> manifestConfig,
               tools |-> toOpenAITools(manifestConfig),
               toolsOfChatLoop |-> toOpenAIToolsOfChatLoop(manifestConfig)]
  /\ UNCHANGED <<client, file, writable, now, turn, conversation, sendDisabled, page>>

NextTranslate == \E manifestConfig \in Manifests : Translate(manifestConfig)

\* SpecTranslate: one translation of every manifest
SpecTranslate == InitFew /\ [][NextTranslate]_vars

\* the schema has type "object"
ObjectTyped(schema) ==
  schema.t = "object" /\ "type" \in DOMAIN schema.f /\ schema.f.type = Lit("object")

\* what C14 says of the translation of a manifest
C14_Holds(manifest, out) ==
  LET given == IF "tools" \in DOMAIN manifest.f THEN manifest.f.tools.a ELSE <<>>
  IN  /\ Len(out) = Len(given)
      /\ \A i \in 1..Len(given) :
           LET tool == given[i].f
               schema == IF "inputSchema" \in DOMAIN tool THEN tool.inputSchema ELSE Undef
           IN  /\ out[i].type = "function"
               /\ DOMAIN out[i].function = {"name", "description", "parameters"}
               /\ out[i].function.name = tool.name
               /\ out[i].function.parameters =
                    (IF ObjectTyped(schema) THEN schema
                     ELSE Obj([type |-> Lit("object"), properties |-> Obj(<<>>)]))
               /\ out[i].function.description =
                    (IF "description" \in DOMAIN tool THEN tool.description ELSE Lit(""))

\* C14: the translation gives one function schema for each tool of the
\* manifest, in the manifest's order and with the tool's name; parameters is
\* the inputSchema itself when that is there with type "object" and
\* {type: "object", properties: {}} when it is null, absent or of another
\* type; description is the empty string when the tool has none.  This holds
\* of the server's translation and of the command-line client's.
C14_Translation ==
  probe # None =>
    /\ C14_Holds(probe.manifest, probe.tools)
    /\ C14_Holds(probe.manifest, probe.toolsOfChatLoop)

\* a manifest was translated whose first tool has an object-typed schema and
\* whose second has a schema of another type and no description
C14_Witness ==
  /\ probe # None
  /\ Len(probe.tools) = 2
  /\ probe.tools[1].function.parameters # EmptyParameters
  /\ probe.tools[1].function.parameters = probe.manifest.f.tools.a[1].f.inputSchema
  /\ probe.manifest.f.tools.a[2].f.inputSchema = Obj([type |-> Lit("string")])
  /\ "description" \notin DOMAIN probe.manifest.f.tools.a[2].f
  /\ probe.tools[2].function.parameters = EmptyParameters
  /\ probe.tools[2].function.description = Lit("")

\* #tasks shows every one of the tasks: "No tasks yet." for none, and else
\* one entry for each task, in order, with its title and its id
ShowsEvery(html, tasks) ==
  IF Len(tasks) = 0 THEN html = NoTasksYet
  ELSE /\ html.html = "tasks"
       /\ Len(html.items) = Len(tasks)
       /\ \A i \in 1..Len(tasks) :
            /\ html.items[i].title = TemplateText(tasks[i].title)
            /\ html.items[i].id = <<"I", "D", " ">> \o TemplateText(tasks[i].id)
            /\ html.items[i].state = (IF tasks[i].done = Bool(TRUE) THEN "Done" ELSE "Open")

\* C15: every fetchTasks asks for /tools/list-tasks and settles without
\* throwing.  After a response that is ok (and whose body could be read) the
\* task list shows every returned task and the status text is "Updated"
\* with the time; after a request that failed or a response that is not ok
\* the status text is "Unable to load tasks." and the task list is the one
\* shown before.
C15_FetchTasks ==
  page.lastFetch # None =>
    LET f == page.lastFetch
    IN  /\ f.url = "/tools/list-tasks"
        /\ ~f.threw
        /\ IF f.response.kind = "response" /\ f.response.ok /\ f.response.readable
           THEN /\ ShowsEvery(page.tasks, f.response.data.tasks)
                /\ page.taskStatus.text = "Updated "
                /\ page.taskStatus.time <= now
           ELSE /\ page.taskStatus = [text |-> "Unable to load tasks."]
                /\ page.tasks = f.shown

\* the page showed two tasks, a chat turn created a third, and the request
\* for the task list after it got a response that is not ok: the two tasks
\* are still shown
C15_Witness ==
  /\ page.lastFetch # None
  /\ page.lastFetch.response = NotOk
  /\ page.tasks.html = "tasks"
  /\ Len(page.tasks.items) = 2
  /\ Len(TasksIn(file)) = 3
  /\ page.taskStatus.text = "Unable to load tasks."

\* the transcript of the request once the user message is in it
WithUserMessage(t) ==
  IF Truthy(turn[t].body.message) /\ ~AlreadyLast(t)
  THEN Append(Req(t), UserMessage(turn[t].body.message))
  ELSE Req(t)

\* C16: the transcript sent to the model is the request's transcript with
\* the default system message put in front exactly when none of its messages
\* has role system, and its first message has role system.
C16_LeadingSystem ==
  \A t \in Turns :
    (client /\ turn[t].pc = "awaitFirst") =>
      LET sent == turn[t].convo
          base == WithUserMessage(t)
      IN  /\ sent = (IF HasSystem(base) THEN base ELSE <<SystemMessage>> \o base)
          /\ sent # <<>>
          /\ sent[1].role = "system"

\* the first tool call of the turn whose arguments are not JSON, 0 when
\* there is none
FirstMalformed(t) ==
  LET bad == {i \in 1..Len(FirstCalls(t)) : FirstCalls(t)[i].function.arguments = Malformed}
  IN  IF bad = {} THEN 0 ELSE CHOOSE i \in bad : \A j \in bad : i <= j

\* C17: a turn with a tool call whose arguments are a non-empty string that
\* is not JSON has failed with an error response; that call was not executed,
\* with no arguments at all or others, there is no tool message for it and no
\* follow-up call was issued.  A tool call with an empty or absent argument
\* string is executed with the empty object.
C17_MalformedArguments ==
  \A t \in Turns :
    turn[t].assistantMessage # None =>
      LET m == FirstMalformed(t)
      IN  /\ m > 0 =>
               /\ Failed(t)
               /\ DOMAIN turn[t].res.body = {"error"}
               /\ Len(turn[t].log) < m
               /\ \A k \in 1..Len(turn[t].convo) :
                    turn[t].convo[k].role = "tool" =>
                      turn[t].convo[k].tool_call_id # FirstCalls(t)[m].id
               /\ CountOf(turn[t].calls, FollowUpLabel) = 0
          /\ \A i \in 1..Len(turn[t].log) :
               FirstCalls(t)[i].function.arguments \in {EmptyText, NoText} =>
                 turn[t].log[i].input = Object(<<>>)

\* list-tasks was executed without arguments, with the empty object, and the
\* turn failed on the next call, whose arguments are not JSON
C17_Witness ==
  \E t \in Turns :
    /\ Len(FirstCalls(t)) = 2
    /\ FirstCalls(t)[1].function.arguments = NoText
    /\ Len(turn[t].log) = 1
    /\ turn[t].log[1].input = Object(<<>>)
    /\ FirstMalformed(t) = 2
    /\ Failed(t)
    /\ turn[t].res.status = 500

\* the operation returned normally and reported success
ReturnedSuccess ==
  ~probe.threw /\ "success" \in DOMAIN probe.out /\ probe.out.success

\* the operation returned a task list
ReturnedTasks == ~probe.threw /\ "tasks" \in DOMAIN probe.out

\* C18: a task operation on a file that cannot be parsed returns neither a
\* success nor a task list and leaves the file as it is, and an operation
\* whose write is refused does not return a success: the fault is thrown.
C18_PersistenceFaultThrown ==
  (probe # None /\ probe.toolName \in KnownTools) =>
    /\ probe.before = Malformed =>
         /\ ~ReturnedSuccess
         /\ ~ReturnedTasks
         /\ file = probe.before
    /\ ~writable => ~ReturnedSuccess

\* C19: mark-complete with an identifier that is not numeric, on a file
\* system that takes the write, sets done to true on the first task, in file
\* order, whose lower-cased title contains the trimmed, lower-cased query, and
\* changes nothing else: that task's id and title, every other task, also a
\* later one that matches too, and the number and order of the tasks are as
\* before.
C19_FirstTitleMatch ==
  ( /\ probe # None
    /\ probe.toolName = "mark-complete"
    /\ writable
    /\ ~NumericIdentifier(FirstPresent(probe.input))
    /\ SomeTaskMatches(TasksIn(probe.before), FirstPresent(probe.input)) ) =>
    LET old == TasksIn(probe.before)
        new == TasksIn(file)
        query == ToLowerCase(Trim(FirstPresent(probe.input).s))
        matching == {i \in 1..Len(old) :
                       old[i].title.t = "string" /\
                       Includes(ToLowerCase(old[i].title.s), query)}
        first == CHOOSE i \in matching : \A j \in matching : i <= j
    IN  /\ probe.out = [success |-> TRUE]
        /\ Len(new) = Len(old)
        /\ new[first].done = Bool(TRUE)
        /\ new[first].id = old[first].id
        /\ new[first].title = old[first].title
        /\ \A i \in 1..Len(old) : i # first => new[i] = old[i]

\* the query "FOO " was given for the tasks Food, Bar and Foo bar, all open:
\* Food, the first that matches, is done and Foo bar, which matches too, is
\* still open
C19_Witness ==
  /\ probe # None
  /\ probe.toolName = "mark-complete"
  /\ probe.before = JSONstringify(ThreeTasks)
  /\ FirstPresent(probe.input) = S(<<"F", "O", "O", " ">>)
  /\ probe.out = [success |-> TRUE]
  /\ TasksIn(file)[1].done = Bool(TRUE)
  /\ Includes(ToLowerCase(TasksIn(file)[3].title.s), Foo)
  /\ TasksIn(file)[3].done = Bool(FALSE)

\* what executeTool does when called with the route's tool name and the
\* request body, on the file the request found
SameCall == executeTool(probe.route, probe.body,
                        [file |-> probe.before, writable |-> writable, now |-> now])

\* the route sent what executeTool returns and left the file as executeTool
\* leaves it; a failure result went out with status 400, any other with 200
SameAsExecuteTool ==
  /\ file = SameCall.file
  /\ ~SameCall.threw =>
       /\ probe.sent = SameCall.out
       /\ probe.status = IF Recoverable(SameCall.out) THEN 400 ELSE 200

\* C20: every tool route, for every request body, sends the result value of
\* executeTool called with the route's tool name and the body as input and
\* changes the task file as that call does, a failure result being sent with
\* status 400 and any other with 200.
C20_RoutesAsExecuteTool == probe # None => SameAsExecuteTool

\* C21: when POST /chat has answered with an error, the tasks of the file are
\* those the file held when the handler started: what the tool calls
\* dispatched earlier in the turn did is not kept.
C21_FailedTurnLeavesNoTrace ==
  \A t \in Turns :
    (Failed(t) /\ turn[t].fileAtStart # None) =>
      TasksIn(file) = TasksIn(turn[t].fileAtStart)

\* the file after the operations ops[i], ops[i+1], ... have run on the file
\* f one after another, each on what the one before it left
RECURSIVE ApplyInOrder(_, _, _)
ApplyInOrder(f, ops, i) ==
  IF i > Len(ops) THEN f
  ELSE ApplyInOrder(executeTool(ops[i].name, ops[i].input,
                                [file |-> f, writable |-> writable, now |-> ops[i].at]).file,
                    ops, i + 1)

\* the turn whose tool calls ran in this step
RanTools(t) == turn'[t].log # <<>> /\ turn'[t].log # turn[t].log

\* the tool route that was served in this step
ServedRoute == probe' # None /\ probe' # probe

\* a step of the server leaves the file as it is unless it ran the tool calls
\* of one turn or served one tool route, and then the file it leaves is what
\* the operations of that turn, or the operation of that route, give when
\* applied one after another to the file the step found
SerialStep ==
  /\ \A t \in Turns :
       RanTools(t) =>
         /\ file' = ApplyInOrder(file, turn'[t].log, 1)
         /\ \A u \in Turns \ {t} : ~RanTools(u)
         /\ ~ServedRoute
  /\ ServedRoute =>
       file' = ApplyInOrder(file, <<[name |-> probe'.route, input |-> probe'.body,
                                     at |-> now]>>, 1)
  /\ file' # file => ServedRoute \/ \E t \in Turns : RanTools(t)

\* C22: with several /chat turns and a tool request in progress in one
\* server, interleaved at the two completion calls, no update of the task file
\* is lost: every operation works on the file the operation before it left,
\* the tool calls of one turn run with no operation of another request in
\* between, and so the file is always what all the operations give when applied
\* one after another in the order they ran.
C22_NoLostUpdate == [][SerialStep]_vars

\* two turns that both started before any task was written and a request to
\* POST /tools/create-task have each created a task, and the file holds the
\* three
C22_Witness ==
  /\ \A t \in {1, 2} :
       /\ turn[t].fileAtStart = Missing
       /\ turn[t].log # <<>>
       /\ turn[t].log[1].name = "create-task"
       /\ turn[t].log[1].result.success
  /\ probe # None
  /\ probe.route = "create-task"
  /\ probe.status = 200
  /\ Len(TasksIn(file)) = 3

\* a request of the page that was sent and whose response sendChat has not
\* yet taken
InFlight(t) ==
  /\ turn[t].from = "browser"
  /\ turn[t].pc \in {"sent", "awaitFirst", "awaitFollowUp", "done"}

AtMostOneInFlight == Cardinality({t \in Turns : InFlight(t)}) <= 1

\* every message of the conversation is still there, at its place, after the
\* step
KeepsMessages ==
  /\ Len(conversation') >= Len(conversation)
  /\ \A i \in 1..Len(conversation) : conversation'[i] = conversation[i]

\* C23: the page has at most one /chat request in flight, whether the form is
\* submitted by the send button or by Ctrl+Enter, and no step of the page
\* removes a user message or an assistant reply from the conversation.
C23_OneRequestInFlight == [][AtMostOneInFlight' /\ KeepsMessages]_vars

====
